---------------------------- MODULE Spec2Model ----------------------------
(***************************************************************************)
(* State-machine model of the regolo-ai/tutorials RAG pipelines.           *)
(*                                                                         *)
(*   production-ready-RAG-on-open-models/production_rag.py                 *)
(*       cached_rag, batch_rag (asyncio semaphore + gather), Redis cache   *)
(*                                                                         *)
(* Texts are TLA+ strings; a Python Optional[str] is a sequence of length  *)
(* 0 (None) or 1 (the value).                                              *)
(***************************************************************************)
EXTENDS Integers, Sequences, FiniteSets, TLC

VARIABLES
    REDIS_AVAILABLE,  \* production_rag.py module flag, set once at import
    cache,            \* the Redis database: key -> stored text (live keys only)
    mode,             \* "idle" | "direct" (a cached_rag call) | "batch" (batch_rag)
    queries,          \* the queries of the call in progress
    use_cache,        \* cached_rag's use_cache argument of the call in progress
    sem,              \* asyncio.Semaphore._value
    waiters,          \* asyncio.Semaphore._waiters (FIFO of task indices)
    pc,               \* per task: where process_one / cached_rag stands
    retrieved,        \* per task: what retriever.retrieve produced
    ret,              \* per task: the value cached_rag returned (Optional)
    retrCalls,        \* per task: retriever.retrieve invocations
    genCalls,         \* per task: rag_generate invocations
    genRequests,      \* per task: requests sent to the generation service
    max_concurrent,   \* max_concurrent of the batch in progress
    completed,        \* task indices in completion order
    batchState,       \* "none" | "running" | "returned" | "raised"
    batchResult,      \* the list batch_rag returned
    expired,          \* a key expired while the cached_rag call in progress ran
    hist,             \* log of finished top-level calls and cache expiries
    calls,            \* number of top-level calls issued so far
    redis_up,         \* the Redis server answers the commands sent to it
    cstate,           \* clear_cache: "idle" | "listed" | "returned" | "raised"
    keys,             \* clear_cache: the local variable keys
    left,             \* the "rag:" keys in the database when clear_cache returned
    outside,          \* the entries outside "rag:" when clear_cache was called
    \* ---- semantic_chunker.py / rag_pipeline.py semantic_chunk ----
    chunker,          \* which chunker is called: "semantic_chunker" | "rag_pipeline"
    text,             \* the text argument (a sequence of characters)
    chunk_size,       \* chunk_size argument / CHUNK_SIZE
    overlap,          \* overlap argument / CHUNK_OVERLAP
    doc_id,           \* doc_id argument
    chunks,           \* the local list chunks (before the overlap pass)
    chunked,          \* Optional: the list the chunker returned
    \* ---- hybrid_store.py HybridStore / retriever.py HybridRetriever ----
    indexed,          \* outcome of index(): "no" | "ok" | "ValueError"
    collection,       \* the texts in the ChromaDB collection, by chunk (doc_{i})
    documents,        \* self.documents
    bm25,             \* self.bm25: "None" | "built" | "loaded"
    bm25_file,        \* Optional: the documents pickled in bm25_index.pkl
    last_chunks,      \* the texts of the chunks argument of the last index call
    rpc,              \* position of the retrieve call
    top_k,            \* retrieve arguments
    dense_k,
    lexical_k,
    q_emb,            \* retrieve: "None" | "embedded" (the embedding service answered)
    bm25_scores,      \* what bm25.get_scores returned, by document
    dense_ids,        \* the chunks behind dense_docs
    lexical_ids,      \* the chunks behind lexical_docs (top_indices)
    dense_docs,
    lexical_docs,
    all_docs,
    scores,           \* what reranker.predict returned
    ranked,
    result,           \* what retrieve returned
    error,            \* exception retrieve raised: "none" | name
    \* ---- embedder.py embed_with_gte_qwen2 / rag_pipeline.py _batch_embed ----
    eimpl,            \* which function embeds: "embedder" | "rag_pipeline"
    caller,           \* "direct" | "embed_chunks"
    REGOLO_API_KEY,   \* the key is set
    texts,            \* the texts argument
    batch_size,       \* the batch_size argument
    service_dim,      \* dimensionality of the vectors of the embedding model
    ei,               \* the loop variable i
    all_embeddings,   \* the list of vectors collected so far
    sent,             \* the batches sent to the service, in order
    serial,           \* number of vectors the service has produced
    failed,           \* number of batches whose request failed
    estate,           \* "idle" | "running" | "returned" | "raised"
    evalue,           \* Optional: the array returned
    embedded,         \* Optional: the chunks embed_chunks returned
    eerror,           \* exception raised: "none" | name
    index_dim,        \* dimensionality of the indexed vectors
    dstate,           \* dense search: "idle" | "scored" | "raised"
    dense_scores,     \* Optional: the similarity of the query to each indexed vector
    \* ---- rag_pipeline.py build_index / load_index, telegram_handler.py ----
    rag_index,        \* rag.index of the bot process: None or the loaded index
    index_file,       \* kb-index.pkl: ABSENT | PARTIAL | Whole(the pickled index)
    upc,              \* the rebuild: "idle" | "built" | "writing" | "reload"
    new_index,        \* the dict index of build_index
    last_built,       \* Optional: the last index whose build ran to its end
    builds,           \* number of rebuilds started
    outcome,          \* how the last rebuild ended: "none" | "ok" | "error" | "killed"
    \* ---- rag_pipeline.py hybrid_retrieve ----
    index_loaded,     \* self.index is not None
    num_chunks,       \* number of chunks of self.index
    kb_k,             \* the argument k
    kb_dense_scores,  \* dense_scores, in tenths, by chunk
    lexical_scores,   \* lexical_scores, in tenths, by chunk
    fused_scores,     \* fused_scores, in hundredths, by chunk
    kb_top_indices,   \* top_indices
    results,          \* Optional: the list returned, of (chunk, metadata, score)
    hpc,              \* "idle" | "returned" | "raised"
    \* ---- telegram_handler.py BotStats, kb_command ----
    today,            \* datetime.now().date(), as a day number
    daily_queries,    \* stats.daily_queries: day -> count
    reset_date,       \* stats.reset_date
    invoked,          \* day -> number of rag.query calls kb_command made
    reply,            \* what the last /kb command was answered with
    commands          \* number of /kb commands handled

ragVars == <<REDIS_AVAILABLE, cache, mode, queries, use_cache, sem, waiters, pc,
             retrieved, ret, retrCalls, genCalls, genRequests, max_concurrent, completed,
             batchState, batchResult, expired, hist, calls>>

chunkVars == <<chunker, text, chunk_size, overlap, doc_id, chunks, chunked>>

retrVars == <<indexed, last_chunks, collection, documents, bm25, bm25_file, rpc, top_k, dense_k,
              lexical_k, q_emb, bm25_scores, dense_ids, lexical_ids, dense_docs, lexical_docs, all_docs,
              scores, ranked, result, error>>

embedVars == <<eimpl, caller, REGOLO_API_KEY, texts, batch_size, service_dim, ei,
               all_embeddings, sent, serial, failed, estate, evalue, embedded, eerror,
               index_dim, dstate, dense_scores>>

\* The Redis server as the other clients of the database see it, and clear_cache.
dbVars == <<redis_up, cstate, keys, left, outside>>

idxVars == <<rag_index, index_file, upc, new_index, last_built, builds, outcome>>

blendVars == <<index_loaded, num_chunks, kb_k, kb_dense_scores, lexical_scores,
               fused_scores, kb_top_indices, results, hpc>>

\* The knowledge-base bot.
statVars == <<today, daily_queries, reset_date, invoked, reply, commands>>

kbVars == <<idxVars, blendVars, statVars>>

vars == <<ragVars, dbVars, chunkVars, retrVars, embedVars, kbVars>>

\* The parts of the state each pipeline leaves alone.
notRag == <<dbVars, chunkVars, retrVars, embedVars, kbVars>>

notChunk == <<ragVars, dbVars, retrVars, embedVars, kbVars>>

notRetr == <<ragVars, dbVars, chunkVars, embedVars, kbVars>>

notEmbed == <<ragVars, dbVars, chunkVars, retrVars, kbVars>>

notIdx == <<ragVars, dbVars, chunkVars, retrVars, embedVars, blendVars, statVars>>

notBlend == <<ragVars, dbVars, chunkVars, retrVars, embedVars, idxVars, statVars>>

notStat == <<ragVars, dbVars, chunkVars, retrVars, embedVars, idxVars, blendVars>>

---------------------------------------------------------------------------
(* Bounds of the model *)
NumQueries == 3
NumBatchQueries == 2
MaxBatch == 3
MaxConcurrent == 2
MaxCalls == 2
MaxTextLen == 7
MaxChunkSize == 5
MaxOverlap == 2
MaxCorpus == 22
MaxSmallCorpus == 2
NumTexts == 2
MaxScore == 1
MaxRot == 2
MaxTopK == 3
MaxWidth == 11
MaxEmbTexts == 4
NumEmbTexts == 2
MaxEmbBatch == 3
MaxBuilds == 3
NumDocSets == 2
MaxChunks == 3
MaxK == 4
MaxSim == 2
MAX_QUERIES_PER_DAY == 2
MaxDays == 2
MaxCommands == 6

---------------------------------------------------------------------------
(* production_rag.py *)

Queries == 1..NumQueries

\* Texts the generation service can produce (the content field of the reply).
Answers == {"", "A", "B"}

\* generator.py: the canned reply of rag_generate for an empty context.
NO_CONTEXT == "No relevant context found to answer this question."

None == <<>>
Some(v) == <<v>>

\* Python truthiness of an Optional[str]: None and "" are falsy.
Truthy(o) == o # None /\ o[1] # ""

\* hashlib.sha256(query.encode()).hexdigest()[:16]: a truncated digest, so
\* distinct queries can share a value.
Sha256Prefix16(q) == q \div 2

cache_key(q) == <<"rag:", Sha256Prefix16(q)>>

rdb_get(k) == IF k \in DOMAIN cache THEN Some(cache[k]) ELSE None

rdb_setex_in(c, k, v) == [x \in (DOMAIN c) \cup {k} |-> IF x = k THEN v ELSE c[x]]

rdb_setex(k, v) == rdb_setex_in(cache, k, v)

rdb_expire(k) == [x \in (DOMAIN cache) \ {k} |-> cache[x]]

\* "use_cache and REDIS_AVAILABLE and rdb": rdb is None exactly when the flag is off.
CacheEnabled == use_cache /\ REDIS_AVAILABLE

Tasks == 1..Len(queries)

\* rag_generate is a blocking call made on the event loop: while one task is
\* in it no other coroutine step runs (threads do).
LoopFree == \A j \in Tasks : pc[j] # "generating"

\* The coroutine ended with an exception: of retrieval or generation
\* ("failed"), of a Redis command ("cache_error"), or the CancelledError
\* thrown into it at the await of line 59 ("cancelled").
Raised(i) == pc[i] \in {"failed", "cache_error", "cancelled"}

Settled(i) == pc[i] = "done" \/ Raised(i)

Inside(i) == pc[i] \in {"retrieving", "retrieved", "generating"}

NumInside == Cardinality({i \in Tasks : Inside(i)})

\* "async with semaphore" exit: Semaphore.release().
Released == IF mode = "batch" THEN sem + 1 ELSE sem

\* cached_rag up to its first suspension point (lines 49-59).  acquired is the
\* semaphore value after the acquire that precedes the call.
EnterCachedRag(i, acquired) ==
    LET cached == IF CacheEnabled THEN rdb_get(cache_key(queries[i])) ELSE None
    IN IF CacheEnabled /\ ~redis_up
       THEN \* line 54: rdb.get raises redis.ConnectionError; nothing catches it
            /\ pc' = [pc EXCEPT ![i] = "cache_error"]
            /\ completed' = Append(completed, i)
            /\ sem' = IF mode = "batch" THEN acquired + 1 ELSE acquired
            /\ UNCHANGED <<ret, retrCalls>>
       ELSE IF CacheEnabled /\ Truthy(cached)
       THEN /\ pc' = [pc EXCEPT ![i] = "done"]
            /\ ret' = [ret EXCEPT ![i] = Some(cached[1])]
            /\ completed' = Append(completed, i)
            /\ sem' = IF mode = "batch" THEN acquired + 1 ELSE acquired
            /\ UNCHANGED retrCalls
       ELSE /\ pc' = [pc EXCEPT ![i] = "retrieving"]
            /\ retrCalls' = [retrCalls EXCEPT ![i] = @ + 1]
            /\ sem' = acquired
            /\ UNCHANGED <<ret, completed>>

\* A coroutine that stores what it has before the exception leaves it.
TaskRaiseStoring(i) ==
    /\ pc' = [pc EXCEPT ![i] = "failed"]
    /\ completed' = Append(completed, i)
    /\ sem' = Released
    /\ cache' = IF CacheEnabled THEN rdb_setex(cache_key(queries[i]), "") ELSE cache
    /\ UNCHANGED ret

\* The coroutine ends with an exception: the semaphore is released on the way out.
TaskRaise(i) ==
    /\ pc' = [pc EXCEPT ![i] = "failed"]
    /\ completed' = Append(completed, i)
    /\ sem' = Released
    /\ UNCHANGED <<cache, ret>>

\* cached_rag lines 62-66 and the exit of "async with": store, return, release.
StoreAndReturn(i, answer) ==
    IF CacheEnabled /\ ~redis_up
    THEN \* line 64: rdb.setex raises redis.ConnectionError; nothing catches it
         /\ pc' = [pc EXCEPT ![i] = "cache_error"]
         /\ completed' = Append(completed, i)
         /\ sem' = Released
         /\ UNCHANGED <<cache, ret>>
    ELSE /\ cache' = IF CacheEnabled THEN rdb_setex(cache_key(queries[i]), answer) ELSE cache
         /\ ret' = [ret EXCEPT ![i] = Some(answer)]
         /\ pc' = [pc EXCEPT ![i] = "done"]
         /\ completed' = Append(completed, i)
         /\ sem' = Released

CacheKeys == {cache_key(q) : q \in Queries}

\* What cached_rag can have stored: a generated text or the canned reply.
StoredTexts == Answers \cup {NO_CONTEXT}

\* The Redis database outlives the process: any content earlier calls left.
CacheStates == UNION {[ks -> StoredTexts] : ks \in SUBSET CacheKeys}

\* No call in progress, none made yet.
RagQuiet ==
    /\ mode = "idle"
    /\ queries = <<>>
    /\ use_cache = TRUE
    /\ sem = 0
    /\ waiters = <<>>
    /\ pc = <<>>
    /\ retrieved = <<>>
    /\ ret = <<>>
    /\ retrCalls = <<>>
    /\ genCalls = <<>>
    /\ genRequests = <<>>
    /\ max_concurrent = 0
    /\ completed = <<>>
    /\ batchState = "none"
    /\ batchResult = <<>>
    /\ expired = FALSE
    /\ hist = <<>>
    /\ calls = 0

\* The server stays reachable and clear_cache is not called.
DbQuiet ==
    /\ redis_up = TRUE
    /\ cstate = "idle"
    /\ keys = {}
    /\ left = {}
    /\ outside = <<>>

\* Lines 16-28: the ping succeeds, or rdb is None and no database is used.
RagInit ==
    /\ REDIS_AVAILABLE \in BOOLEAN
    /\ cache \in IF REDIS_AVAILABLE THEN CacheStates ELSE {<<>>}
    /\ RagQuiet
    /\ DbQuiet

\* production_rag is not in use.
RagUnused ==
    /\ REDIS_AVAILABLE = FALSE
    /\ cache = <<>>
    /\ RagQuiet
    /\ DbQuiet

FreshTasks(qs) ==
    /\ queries' = qs
    /\ pc' = [i \in 1..Len(qs) |-> "ready"]
    /\ retrieved' = [i \in 1..Len(qs) |-> "none"]
    /\ ret' = [i \in 1..Len(qs) |-> None]
    /\ retrCalls' = [i \in 1..Len(qs) |-> 0]
    /\ genCalls' = [i \in 1..Len(qs) |-> 0]
    /\ genRequests' = [i \in 1..Len(qs) |-> 0]
    /\ completed' = <<>>
    /\ waiters' = <<>>
    /\ batchResult' = <<>>

\* A caller awaits cached_rag(q, retriever, use_cache=uc)  (main.py 138, 173).
CallCachedRag ==
    /\ mode = "idle"
    /\ calls < MaxCalls
    /\ \E q \in Queries, uc \in BOOLEAN :
          /\ FreshTasks(<<q>>)
          /\ use_cache' = uc
    /\ mode' = "direct"
    /\ calls' = calls + 1
    /\ sem' = 0
    /\ max_concurrent' = 0
    /\ batchState' = "none"
    /\ UNCHANGED <<REDIS_AVAILABLE, cache, expired, hist>>
    /\ UNCHANGED notRag

BatchQueries == 1..NumBatchQueries

BatchInputs == UNION {[1..n -> BatchQueries] : n \in 1..MaxBatch}

\* batch_rag lines 85-91: the semaphore and one process_one coroutine per query.
CallBatchRag ==
    /\ mode = "idle"
    /\ calls = 0
    /\ \E qs \in BatchInputs, m \in 1..MaxConcurrent :
          /\ FreshTasks(qs)
          /\ sem' = m
          /\ max_concurrent' = m
    /\ use_cache' = TRUE
    /\ mode' = "batch"
    /\ calls' = calls + 1
    /\ batchState' = "running"
    /\ UNCHANGED <<REDIS_AVAILABLE, cache, expired, hist>>
    /\ UNCHANGED notRag

\* Semaphore.locked() is false: the value is positive and nobody queues.
CanAcquireUngated == TRUE

CanAcquire == sem > 0 /\ waiters = <<>>

\* First step of a task.  The event loop starts the tasks in creation order.
\* Semaphore.acquire returns at once when the value is positive and nobody
\* waits; otherwise the task queues.
TaskStart(i) ==
    /\ mode \in {"direct", "batch"}
    /\ pc[i] = "ready"
    /\ \A j \in 1..(i-1) : pc[j] # "ready"
    /\ LoopFree
    /\ IF mode = "batch" /\ ~CanAcquire
       THEN /\ pc' = [pc EXCEPT ![i] = "waiting"]
            /\ waiters' = Append(waiters, i)
            /\ UNCHANGED <<sem, ret, completed, retrCalls>>
       ELSE /\ EnterCachedRag(i, IF mode = "batch" THEN sem - 1 ELSE sem)
            /\ UNCHANGED waiters
    /\ UNCHANGED <<REDIS_AVAILABLE, cache, mode, queries, use_cache, retrieved,
                   genCalls, genRequests, max_concurrent, batchState, batchResult,
                   expired, hist, calls>>
    /\ UNCHANGED notRag

\* A released slot wakes the longest-waiting task, which then enters cached_rag.
Admit(i) ==
    /\ mode = "batch"
    /\ pc[i] = "waiting"
    /\ waiters # <<>> /\ Head(waiters) = i
    /\ sem > 0
    /\ LoopFree
    /\ waiters' = Tail(waiters)
    /\ EnterCachedRag(i, sem - 1)
    /\ UNCHANGED <<REDIS_AVAILABLE, cache, mode, queries, use_cache, retrieved,
                   genCalls, genRequests, max_concurrent, batchState, batchResult,
                   expired, hist, calls>>
    /\ UNCHANGED notRag

RetrieveOutcomes == {"docs", "empty", "raise"}

\* The worker thread of asyncio.to_thread(retriever.retrieve, ...) finishes.
RetrieveReturn(i) ==
    /\ mode \in {"direct", "batch"}
    /\ pc[i] = "retrieving"
    /\ \E o \in RetrieveOutcomes : retrieved' = [retrieved EXCEPT ![i] = o]
    /\ pc' = [pc EXCEPT ![i] = "retrieved"]
    /\ UNCHANGED <<REDIS_AVAILABLE, cache, mode, queries, use_cache, sem, waiters,
                   ret, retrCalls, genCalls, genRequests, max_concurrent, completed,
                   batchState, batchResult, expired, hist, calls>>
    /\ UNCHANGED notRag

\* The task resumes after the await (line 59) and calls rag_generate (line 60):
\* an exception of retrieve propagates; an empty context is answered without a
\* request (generator.py 39-40); otherwise the request is sent.
Resume(i) ==
    /\ mode \in {"direct", "batch"}
    /\ pc[i] = "retrieved"
    /\ LoopFree
    /\ CASE retrieved[i] = "raise" ->
                /\ TaskRaise(i)
                /\ UNCHANGED <<genCalls, genRequests>>
         [] retrieved[i] = "empty" ->
                /\ StoreAndReturn(i, NO_CONTEXT)
                /\ genCalls' = [genCalls EXCEPT ![i] = @ + 1]
                /\ UNCHANGED genRequests
         [] OTHER ->
                /\ pc' = [pc EXCEPT ![i] = "generating"]
                /\ genCalls' = [genCalls EXCEPT ![i] = @ + 1]
                /\ genRequests' = [genRequests EXCEPT ![i] = @ + 1]
                /\ UNCHANGED <<cache, ret, completed, sem>>
    /\ UNCHANGED <<REDIS_AVAILABLE, mode, queries, use_cache, waiters, retrieved,
                   retrCalls, max_concurrent, batchState, batchResult, expired, hist, calls>>
    /\ UNCHANGED notRag

\* The generation request ends: with a text, or with an exception
\* (generator.py 80-85 re-raises the HTTP error; a timeout raises too).
GenerateReturn(i) ==
    /\ mode \in {"direct", "batch"}
    /\ pc[i] = "generating"
    /\ \/ \E a \in Answers : StoreAndReturn(i, a)
       \/ TaskRaise(i)
    /\ UNCHANGED <<REDIS_AVAILABLE, mode, queries, use_cache, waiters, retrieved,
                   retrCalls, genCalls, genRequests, max_concurrent, batchState,
                   batchResult, expired, hist, calls>>
    /\ UNCHANGED notRag

\* The caller abandons the call (task.cancel(), asyncio.wait_for timing out):
\* CancelledError is thrown into cached_rag where it is suspended, at the
\* await of line 59, before or after the worker thread has finished.  The
\* thread is not interrupted; what it returns is dropped.
Cancel(i) ==
    /\ mode \in {"direct", "batch"}
    /\ pc[i] \in {"retrieving", "retrieved"}
    /\ LoopFree
    /\ pc' = [pc EXCEPT ![i] = "cancelled"]
    /\ completed' = Append(completed, i)
    /\ sem' = Released
    /\ UNCHANGED <<REDIS_AVAILABLE, cache, mode, queries, use_cache, waiters, retrieved,
                   ret, retrCalls, genCalls, genRequests, max_concurrent, batchState,
                   batchResult, expired, hist, calls>>
    /\ UNCHANGED notRag

\* asyncio.gather: every child finished without exception, the results are
\* listed in the order of the children.
GatherResultsAsCompleted == [k \in Tasks |-> ret[completed[k]][1]]

GatherResults == [i \in Tasks |-> ret[i][1]]

GatherReturn ==
    /\ mode = "batch"
    /\ batchState = "running"
    /\ \A i \in Tasks : pc[i] = "done"
    /\ batchResult' = GatherResults
    /\ batchState' = "returned"
    /\ UNCHANGED <<REDIS_AVAILABLE, cache, mode, queries, use_cache, sem, waiters,
                   pc, retrieved, ret, retrCalls, genCalls, genRequests, max_concurrent, completed,
                   expired, hist, calls>>
    /\ UNCHANGED notRag

\* asyncio.gather without return_exceptions: the first exception of a child is
\* raised to the awaiting batch_rag; the other children keep running.
GatherRaise ==
    /\ mode = "batch"
    /\ batchState = "running"
    /\ \E i \in Tasks : Raised(i)
    /\ LoopFree
    /\ batchState' = "raised"
    /\ UNCHANGED <<REDIS_AVAILABLE, cache, mode, queries, use_cache, sem, waiters,
                   pc, retrieved, ret, retrCalls, genCalls, genRequests, max_concurrent, completed,
                   batchResult, expired, hist, calls>>
    /\ UNCHANGED notRag

CallRecord(kind) ==
    [kind |-> kind,
     q |-> IF kind = "call" THEN queries[1] ELSE 0,
     cached |-> IF kind = "call" THEN CacheEnabled ELSE FALSE,
     expired |-> expired,
     ok |-> IF kind = "call" THEN pc[1] = "done" ELSE FALSE,
     ret |-> IF kind = "call" THEN ret[1] ELSE None,
     retr |-> IF kind = "call" THEN retrCalls[1] ELSE 0,
     gen |-> IF kind = "call" THEN genCalls[1] ELSE 0]

\* No call in progress: the frames of the finished call are gone.
Idle ==
    /\ mode' = "idle"
    /\ queries' = <<>>
    /\ use_cache' = TRUE
    /\ sem' = 0
    /\ waiters' = <<>>
    /\ pc' = <<>>
    /\ retrieved' = <<>>
    /\ ret' = <<>>
    /\ retrCalls' = <<>>
    /\ genCalls' = <<>>
    /\ genRequests' = <<>>
    /\ max_concurrent' = 0
    /\ completed' = <<>>
    /\ batchState' = "none"
    /\ batchResult' = <<>>
    /\ expired' = FALSE

\* The awaited cached_rag call is over; the caller may issue the next one.
DirectEnd ==
    /\ mode = "direct"
    /\ Settled(1)
    /\ hist' = Append(hist, CallRecord("call"))
    /\ Idle
    /\ UNCHANGED <<REDIS_AVAILABLE, cache, calls>>
    /\ UNCHANGED notRag

\* batch_rag is over (returned or raised) and its tasks have run out.
BatchEnd ==
    /\ mode = "batch"
    /\ batchState \in {"returned", "raised"}
    /\ \A i \in Tasks : Settled(i)
    /\ hist' = Append(hist, CallRecord("batch"))
    /\ Idle
    /\ UNCHANGED <<REDIS_AVAILABLE, cache, calls>>
    /\ UNCHANGED notRag

\* The TTL given to setex (line 64) runs out: Redis drops the key.
Expire ==
    /\ \E k \in DOMAIN cache : cache' = rdb_expire(k)
    /\ hist' = IF mode = "idle" /\ hist # <<>> /\ hist[Len(hist)].kind # "expire"
               THEN Append(hist, CallRecord("expire")) ELSE hist
    /\ expired' = (expired \/ mode = "direct")
    /\ UNCHANGED <<REDIS_AVAILABLE, mode, queries, use_cache, sem, waiters, pc,
                   retrieved, ret, retrCalls, genCalls, genRequests, max_concurrent, completed,
                   batchState, batchResult, calls>>
    /\ UNCHANGED notRag

\* A key another application keeps in the same database.
OTHER_KEY == <<"session:", 0>>

OTHER_VALUE == "s"

\* The database is shared: it can hold entries that are not cached_rag's.
SharedCacheStates ==
    CacheStates \cup {rdb_setex_in(c, OTHER_KEY, OTHER_VALUE) : c \in CacheStates}

\* rdb.keys("rag:*")
rdb_keys(prefix) == {k \in DOMAIN cache : k[1] = prefix}

\* rdb.delete(*keys)
rdb_delete(ks) == [x \in (DOMAIN cache) \ ks |-> cache[x]]

\* The entries of a database whose key does not start with "rag:".
OutsidePrefix(c) == [x \in {k \in DOMAIN c : k[1] # "rag:"} |-> c[x]]

\* Lines 16-28, with a database other applications use too.
SharedInit ==
    /\ REDIS_AVAILABLE \in BOOLEAN
    /\ cache \in IF REDIS_AVAILABLE THEN SharedCacheStates ELSE {<<>>}
    /\ RagQuiet
    /\ DbQuiet

\* The Redis server stops answering (crash, network partition) after the
\* ping of line 23 succeeded.
RedisDown ==
    /\ REDIS_AVAILABLE
    /\ redis_up
    /\ redis_up' = FALSE
    /\ UNCHANGED <<cstate, keys, left, outside>>
    /\ UNCHANGED <<ragVars, chunkVars, retrVars, embedVars, kbVars>>

\* clear_cache lines 97-99, and 102-103 when Redis was not reachable at
\* import.  clear_cache is a client of the database like every cached_rag of
\* every process that uses it: each Redis command is atomic, two are not.
ClearCacheKeys ==
    /\ cstate = "idle"
    /\ outside' = OutsidePrefix(cache)
    /\ IF ~REDIS_AVAILABLE
       THEN /\ cstate' = "returned"
            /\ left' = rdb_keys("rag:")
            /\ UNCHANGED keys
       ELSE IF ~redis_up
       THEN /\ cstate' = "raised"
            /\ UNCHANGED <<keys, left>>
       ELSE /\ keys' = rdb_keys("rag:")
            /\ cstate' = IF keys' = {} THEN "returned" ELSE "listed"
            /\ left' = IF keys' = {} THEN rdb_keys("rag:") ELSE left
    /\ UNCHANGED redis_up
    /\ UNCHANGED <<ragVars, chunkVars, retrVars, embedVars, kbVars>>

\* clear_cache lines 100-101: rdb.delete(*keys), then the return.
ClearCacheDelete ==
    /\ cstate = "listed"
    /\ IF ~redis_up
       THEN /\ cstate' = "raised"
            /\ UNCHANGED <<cache, left>>
       ELSE /\ cache' = rdb_delete(keys)
            /\ cstate' = "returned"
            /\ left' = {k \in DOMAIN cache' : k[1] = "rag:"}
    /\ UNCHANGED <<redis_up, keys, outside>>
    /\ UNCHANGED <<REDIS_AVAILABLE, mode, queries, use_cache, sem, waiters, pc,
                   retrieved, ret, retrCalls, genCalls, genRequests, max_concurrent, completed,
                   batchState, batchResult, expired, hist, calls>>
    /\ UNCHANGED <<chunkVars, retrVars, embedVars, kbVars>>

---------------------------------------------------------------------------
(* Strings: sequences of one-character strings, with Python's str methods *)

NL == "\n"

\* The character U+00B6 that rag_pipeline.semantic_chunk writes for a blank line.
PILCROW == "P"

Min(a, b) == IF a <= b THEN a ELSE b

IsPrefix(p, s) == Len(p) <= Len(s) /\ SubSeq(s, 1, Len(p)) = p

Drop(s, n) == SubSeq(s, n + 1, Len(s))

\* str.split(sep): cut at the non-overlapping occurrences of sep, left to right.
RECURSIVE SplitFrom(_, _, _)
SplitFrom(s, sep, cur) ==
    IF s = <<>> THEN <<cur>>
    ELSE IF IsPrefix(sep, s)
         THEN <<cur>> \o SplitFrom(Drop(s, Len(sep)), sep, <<>>)
         ELSE SplitFrom(Tail(s), sep, Append(cur, Head(s)))

Split(s, sep) == SplitFrom(s, sep, <<>>)

\* str.replace(old, new)
RECURSIVE Replace(_, _, _)
Replace(s, old, new) ==
    IF s = <<>> THEN <<>>
    ELSE IF IsPrefix(old, s)
         THEN new \o Replace(Drop(s, Len(old)), old, new)
         ELSE <<Head(s)>> \o Replace(Tail(s), old, new)

IsSpace(c) == c \in {" ", NL}

RECURSIVE LStrip(_)
LStrip(s) == IF s # <<>> /\ IsSpace(Head(s)) THEN LStrip(Tail(s)) ELSE s

RECURSIVE RStrip(_)
RStrip(s) ==
    IF s # <<>> /\ IsSpace(s[Len(s)]) THEN RStrip(SubSeq(s, 1, Len(s) - 1)) ELSE s

\* str.strip()
Strip(s) == RStrip(LStrip(s))

\* s[-n:] for n > 0
\* s[:n] taken where s[-n:] is meant
LastNFromFront(s, n) == IF n >= Len(s) THEN s ELSE SubSeq(s, 1, n)

LastN(s, n) == IF n >= Len(s) THEN s ELSE SubSeq(s, Len(s) - n + 1, Len(s))

\* s[:n] for n >= 0
FirstN(s, n) == IF n >= Len(s) THEN s ELSE SubSeq(s, 1, n)

---------------------------------------------------------------------------
(* semantic_chunker.py: semantic_chunk *)

\* The loop with the test of line 41 as <= in place of <.
RECURSIVE AccumulateInclusive(_, _, _, _)
AccumulateInclusive(paragraphs, acc, current_chunk, size) ==
    IF paragraphs = <<>>
    THEN IF current_chunk # <<>> THEN Append(acc, Strip(current_chunk)) ELSE acc
    ELSE LET para == Head(paragraphs)
             rest == Tail(paragraphs)
         IN IF Strip(para) = <<>>
            THEN AccumulateInclusive(rest, acc, current_chunk, size)
            ELSE IF Len(current_chunk) + Len(para) <= size
                 THEN AccumulateInclusive(rest, acc, current_chunk \o para \o <<NL, NL>>, size)
                 ELSE AccumulateInclusive(rest,
                                 IF current_chunk # <<>>
                                    THEN Append(acc, Strip(current_chunk)) ELSE acc,
                                 para \o <<NL, NL>>, size)

\* Lines 35-46: the loop over the paragraphs; lines 48-50: the remaining chunk.
RECURSIVE Accumulate(_, _, _, _)
Accumulate(paragraphs, acc, current_chunk, size) ==
    IF paragraphs = <<>>
    THEN IF current_chunk # <<>> THEN Append(acc, Strip(current_chunk)) ELSE acc
    ELSE LET para == Head(paragraphs)
             rest == Tail(paragraphs)
         IN IF Strip(para) = <<>>
            THEN Accumulate(rest, acc, current_chunk, size)
            ELSE IF Len(current_chunk) + Len(para) < size
                 THEN Accumulate(rest, acc, current_chunk \o para \o <<NL, NL>>, size)
                 ELSE Accumulate(rest,
                                 IF current_chunk # <<>>
                                    THEN Append(acc, Strip(current_chunk)) ELSE acc,
                                 para \o <<NL, NL>>, size)

\* The paragraph loop without the remaining chunk of lines 48-50.
BoundaryChunksNoRemainder(t, size) ==
    LET all == Accumulate(Split(t, <<NL, NL>>), <<>>, <<>>, size)
    IN SubSeq(all, 1, Len(all) - 1)

\* Lines 29-50: the list chunks before the overlap pass.
BoundaryChunks(t, size) == Accumulate(Split(t, <<NL, NL>>), <<>>, <<>>, size)

\* The overlap pass with the whole previous chunk prepended.
AddOverlapWholePrev(cs, ov, sep) ==
    [i \in 1..Len(cs) |->
        IF i > 1 /\ ov > 0 THEN cs[i-1] \o sep \o cs[i] ELSE cs[i]]

\* Lines 52-62 (and rag_pipeline.py 150-157): the overlap pass.
AddOverlap(cs, ov, sep) ==
    [i \in 1..Len(cs) |->
        IF i > 1 /\ ov > 0 THEN LastN(cs[i-1], ov) \o sep \o cs[i] ELSE cs[i]]

\* The records with chunk_id counted from 1.
WithMetaFromOne(overlapped, id) ==
    [i \in 1..Len(overlapped) |->
        [content |-> overlapped[i],
         metadata |-> [chunk_id |-> i,
                       doc_id |-> id,
                       chunk_size |-> Len(overlapped[i]),
                       total_chunks |-> Len(overlapped)]]]

\* Lines 64-75: the records returned.
WithMeta(overlapped, id) ==
    [i \in 1..Len(overlapped) |->
        [content |-> overlapped[i],
         metadata |-> [chunk_id |-> i - 1,
                       doc_id |-> id,
                       chunk_size |-> Len(overlapped[i]),
                       total_chunks |-> Len(overlapped)]]]

DOC_ID == "doc_default"

semantic_chunk(t, size, ov, id) ==
    WithMeta(AddOverlap(BoundaryChunks(t, size), ov, <<NL>>), id)

---------------------------------------------------------------------------
(* rag_pipeline.py: KnowledgeBaseRAG.semantic_chunk *)

\* Line 127
KBClean(t) == Replace(Replace(t, <<NL, NL>>, <<" ", PILCROW, " ">>), <<NL>>, <<" ">>)

\* Lines 130-133
RECURSIVE KBSentencesOf(_)
KBSentencesOf(parts) ==
    IF parts = <<>> THEN <<>>
    ELSE IF Strip(Head(parts)) # <<>>
         THEN <<Strip(Head(parts)) \o <<".">>>> \o KBSentencesOf(Tail(parts))
         ELSE KBSentencesOf(Tail(parts))

KBSentences(t) == KBSentencesOf(Split(KBClean(t), <<".", " ">>))

\* Lines 136-148
RECURSIVE KBAccumulate(_, _, _, _)
KBAccumulate(sentences, acc, current_chunk, size) ==
    IF sentences = <<>>
    THEN IF Strip(current_chunk) # <<>> THEN Append(acc, Strip(current_chunk)) ELSE acc
    ELSE LET sentence == Head(sentences)
             rest == Tail(sentences)
         IN IF Len(current_chunk) + Len(sentence) < size
            THEN KBAccumulate(rest, acc, current_chunk \o <<" ">> \o sentence, size)
            ELSE KBAccumulate(rest,
                              IF Strip(current_chunk) # <<>>
                                 THEN Append(acc, Strip(current_chunk)) ELSE acc,
                              sentence, size)

KBBoundaryChunks(t, size) == KBAccumulate(KBSentences(t), <<>>, <<>>, size)

kb_semantic_chunk(t, size, ov) == AddOverlap(KBBoundaryChunks(t, size), ov, <<" ">>)

---------------------------------------------------------------------------
(* The chunkers as operations *)

Alphabet(c) == IF c = "semantic_chunker" THEN {"a", "b", NL} ELSE {"a", ".", " ", NL}

Texts(c) == UNION {[1..n -> Alphabet(c)] : n \in 0..MaxTextLen}

\* main.py line 97 passes doc_{i}; the default is "doc_default".
DocIds(c) == IF c = "semantic_chunker" THEN {DOC_ID, "doc_0"} ELSE {DOC_ID}

ChunkInit ==
    /\ chunker \in {"semantic_chunker", "rag_pipeline"}
    /\ text \in Texts(chunker)
    /\ chunk_size \in 1..MaxChunkSize
    /\ overlap \in 0..MaxOverlap
    /\ doc_id \in DocIds(chunker)
    /\ chunks = <<>>
    /\ chunked = None

ChunkUnused ==
    /\ chunker = "semantic_chunker"
    /\ text = <<>>
    /\ chunk_size = 1
    /\ overlap = 0
    /\ doc_id = DOC_ID
    /\ chunks = <<>>
    /\ chunked = None

\* semantic_chunk(text, chunk_size, overlap)
SemanticChunk ==
    /\ chunker = "semantic_chunker"
    /\ chunked = None
    /\ chunks' = BoundaryChunks(text, chunk_size)
    /\ chunked' = Some(semantic_chunk(text, chunk_size, overlap, doc_id))
    /\ UNCHANGED <<chunker, text, chunk_size, overlap, doc_id>>
    /\ UNCHANGED notChunk

\* KnowledgeBaseRAG.semantic_chunk(text) with CHUNK_SIZE, CHUNK_OVERLAP
KBSemanticChunk ==
    /\ chunker = "rag_pipeline"
    /\ chunked = None
    /\ chunks' = KBBoundaryChunks(text, chunk_size)
    /\ chunked' = Some(kb_semantic_chunk(text, chunk_size, overlap))
    /\ UNCHANGED <<chunker, text, chunk_size, overlap, doc_id>>
    /\ UNCHANGED notChunk

\* The content of the i-th returned chunk.
Content(i) ==
    IF chunker = "semantic_chunker" THEN chunked[1][i].content ELSE chunked[1][i]

NumChunks == Len(chunked[1])

\* The units the chunker never splits: stripped non-blank paragraphs, sentences.
RECURSIVE NonBlankStripped(_)
NonBlankStripped(ps) ==
    IF ps = <<>> THEN <<>>
    ELSE IF Strip(Head(ps)) # <<>>
         THEN <<Strip(Head(ps))>> \o NonBlankStripped(Tail(ps))
         ELSE NonBlankStripped(Tail(ps))

Units ==
    IF chunker = "semantic_chunker"
    THEN NonBlankStripped(Split(text, <<NL, NL>>))
    ELSE KBSentences(text)

\* What the overlap pass puts between the overlap and the chunk.
Separator == IF chunker = "semantic_chunker" THEN <<NL>> ELSE <<" ">>

---------------------------------------------------------------------------
(* hybrid_store.py: HybridStore;  retriever.py: HybridRetriever *)

\* retriever.py line 64: [:20]
FUSE_CAP == 20

\* Chunk texts, as far as retrieval looks at them: equal or different.
TextIds == 1..MaxCorpus

\* The texts of the chunks handed to index(): every short list over NumTexts
\* texts, and long lists of different texts, one ending in a repeated text.
Corpora ==
    UNION {[1..n -> 1..NumTexts] : n \in 0..MaxSmallCorpus}
    \cup {[i \in 1..MaxCorpus |-> i],
          [i \in 1..MaxCorpus |-> IF i = MaxCorpus THEN 1 ELSE i]}

Reverse(s) == [i \in 1..Len(s) |-> s[Len(s) + 1 - i]]

Rot(n, r) == [i \in 1..n |-> ((i - 1 + r) % n) + 1]

\* Orders of the n chunks by distance to a query embedding.
DenseRanks(n) ==
    IF n = 0 THEN {<<>>}
    ELSE UNION {{Rot(n, r), Reverse(Rot(n, r))} : r \in 0..Min(n - 1, MaxRot)}

\* bm25.get_scores(tokenized_query): one score per document.
BM25Scores(n) ==
    IF n <= MaxSmallCorpus
    THEN [1..n -> 0..MaxScore]
    ELSE {[i \in 1..n |-> i], [i \in 1..n |-> n - i]}

\* np.argsort(a): the indices in an ascending order of a; the default sort is
\* not stable, so equal scores come in any order.
RECURSIVE AscendingOrders(_, _)
AscendingOrders(a, S) ==
    IF S = {} THEN {<<>>}
    ELSE LET lo == {i \in S : \A j \in S : a[i] <= a[j]}
         IN UNION {{<<i>> \o o : o \in AscendingOrders(a, S \ {i})} : i \in lo}

argsort(a) == AscendingOrders(a, DOMAIN a)

\* s[-k:] for k >= 0 (s[-0:] is s[0:])
NegSlice(s, k) == IF k = 0 THEN s ELSE LastN(s, k)

TextsOf(docs, ids) == [i \in 1..Len(ids) |-> docs[ids[i]]]

Range(s) == {s[i] : i \in 1..Len(s)}

\* list(dict.fromkeys(s)): first occurrences, in order.
RECURSIVE DedupFrom(_, _)
DedupFrom(s, seen) ==
    IF s = <<>> THEN <<>>
    ELSE IF Head(s) \in seen
         THEN DedupFrom(Tail(s), seen)
         ELSE <<Head(s)>> \o DedupFrom(Tail(s), seen \cup {Head(s)})

DedupFirst(s) == DedupFrom(s, {})

\* The fusion with the lexical candidates first.
FuseLexicalFirst(dense, lexical) == FirstN(DedupFirst(lexical \o dense), FUSE_CAP)

\* retriever.py line 64
Fuse(dense, lexical) == FirstN(DedupFirst(dense \o lexical), FUSE_CAP)

\* The scores reranker.predict gives to the texts.
RerankerModels ==
    {[t \in TextIds |-> 0], [t \in TextIds |-> t],
     [t \in TextIds |-> 0 - t], [t \in TextIds |-> t % 2]}

\* The last pair of the highest score.
LastMax(ps) ==
    CHOOSE i \in 1..Len(ps) :
        /\ \A j \in 1..Len(ps) : ps[j][1] <= ps[i][1]
        /\ \A j \in (i+1)..Len(ps) : ps[j][1] < ps[i][1]

\* The first pair of the highest score.
FirstMax(ps) ==
    CHOOSE i \in 1..Len(ps) :
        /\ \A j \in 1..Len(ps) : ps[j][1] <= ps[i][1]
        /\ \A j \in 1..(i-1) : ps[j][1] < ps[i][1]

RemoveAt(s, i) == SubSeq(s, 1, i - 1) \o SubSeq(s, i + 1, Len(s))

\* sorted(pairs, reverse=True, key=lambda x: x[0]): the sort is stable, and
\* with reverse=True equal keys keep their original order.
RECURSIVE SortedByScore(_)
SortedByScore(ps) ==
    IF ps = <<>> THEN <<>>
    ELSE LET i == FirstMax(ps)
         IN <<ps[i]>> \o SortedByScore(RemoveAt(ps, i))

\* HybridStore.__init__ on a new persist_path; no retrieve call made.
StoreInit ==
    /\ indexed = "no"
    /\ collection = <<>>
    /\ documents = <<>>
    /\ bm25 = "None"
    /\ bm25_file = None
    /\ last_chunks = <<>>
    /\ rpc = "idle"
    /\ top_k = 0
    /\ dense_k = 0
    /\ lexical_k = 0
    /\ q_emb = "None"
    /\ bm25_scores = <<>>
    /\ dense_ids = <<>>
    /\ lexical_ids = <<>>
    /\ dense_docs = <<>>
    /\ lexical_docs = <<>>
    /\ all_docs = <<>>
    /\ scores = <<>>
    /\ ranked = <<>>
    /\ result = <<>>
    /\ error = "none"

callVars == <<rpc, top_k, dense_k, lexical_k, q_emb, bm25_scores, dense_ids, lexical_ids, dense_docs,
              lexical_docs, all_docs, scores, ranked, result, error>>

\* HybridStore.index(chunks)
Index ==
    /\ indexed = "no"
    /\ rpc = "idle"
    /\ \E contents \in Corpora :
        /\ last_chunks' = contents
        /\ IF contents = <<>>
           THEN /\ indexed' = "ValueError"
                /\ UNCHANGED <<collection, documents, bm25, bm25_file>>
           ELSE /\ indexed' = "ok"
                /\ collection' = contents
                /\ documents' = contents
                /\ bm25' = "built"
                /\ bm25_file' = Some(contents)
    /\ UNCHANGED callVars
    /\ UNCHANGED notRetr

\* collection.add(ids=["doc_0", ...]) on a collection that holds some of the
\* ids: the records of these ids are left as they are, the others are added.
AddIgnoringExisting(old, contents) ==
    [i \in 1..(IF Len(old) > Len(contents) THEN Len(old) ELSE Len(contents)) |->
        IF i <= Len(old) THEN old[i] ELSE contents[i]]

\* HybridStore.index(chunks) on a store that is indexed already.  Every call
\* names its chunks doc_0, doc_1, ... (line 50); what collection.add does with
\* ids the collection holds depends on the chromadb release: it leaves them
\* and goes on, or it raises and index stops at line 56.
IndexAgain ==
    /\ indexed \in {"ok", "DuplicateIDError"}
    /\ rpc = "idle"
    /\ bm25 = "built"
    /\ \E contents \in Corpora, add_raises \in BOOLEAN :
        /\ last_chunks' = contents
        /\ IF contents = <<>>
           THEN /\ indexed' = "ValueError"
                /\ UNCHANGED <<collection, documents, bm25, bm25_file>>
           ELSE IF add_raises
           THEN /\ indexed' = "DuplicateIDError"
                /\ UNCHANGED <<collection, documents, bm25, bm25_file>>
           ELSE /\ indexed' = "ok"
                /\ collection' = AddIgnoringExisting(collection, contents)
                /\ documents' = contents
                /\ bm25' = "built"
                /\ bm25_file' = Some(contents)
    /\ UNCHANGED callVars
    /\ UNCHANGED notRetr

\* A later process opens the store on the same persist_path.
Reopen ==
    /\ rpc = "idle"
    /\ bm25 = "built"
    /\ bm25' = "None"
    /\ documents' = <<>>
    /\ UNCHANGED <<indexed, last_chunks, collection, bm25_file>>
    /\ UNCHANGED callVars
    /\ UNCHANGED notRetr

TopKs == 0..MaxTopK

DenseWidths == {1, 2, MaxWidth}

LexicalWidths == {0, 1, 2, MaxWidth}

\* retrieve(query, top_k, dense_k, lexical_k), lines 56-58: the query is embedded
\* (embed_query, a request to the embedding service), then the dense search.
CallRetrieve ==
    /\ rpc = "idle"
    /\ q_emb' = "embedded"
    /\ \E k \in TopKs, dk \in DenseWidths, lk \in LexicalWidths :
        /\ top_k' = k
        /\ dense_k' = dk
        /\ lexical_k' = lk
        /\ \E rank \in DenseRanks(Len(collection)) :
            /\ dense_ids' = FirstN(rank, dk)
            /\ dense_docs' = TextsOf(collection, FirstN(rank, dk))
    /\ rpc' = "dense"
    /\ UNCHANGED <<indexed, last_chunks, collection, documents, bm25, bm25_file, bm25_scores,
                   lexical_ids, lexical_docs, all_docs, scores, ranked, result, error>>
    /\ UNCHANGED notRetr

\* Line 61, hybrid_store.py lines 117-127 and 77-88.
LexicalSearch ==
    /\ rpc = "dense"
    /\ IF bm25 = "None" /\ bm25_file = None
       THEN /\ rpc' = "raised"
            /\ error' = "FileNotFoundError"
            /\ UNCHANGED <<documents, bm25, bm25_scores, lexical_ids, lexical_docs>>
       ELSE /\ bm25' = IF bm25 = "None" THEN "loaded" ELSE bm25
            /\ documents' = IF bm25 = "None" THEN bm25_file[1] ELSE documents
            /\ \E sc \in BM25Scores(Len(documents')) :
                \E order \in argsort(sc) :
                    LET top_indices == Reverse(NegSlice(order, lexical_k))
                    IN /\ bm25_scores' = sc
                       /\ lexical_ids' = top_indices
                       /\ lexical_docs' = TextsOf(documents', top_indices)
            /\ rpc' = "lexical"
            /\ UNCHANGED error
    /\ UNCHANGED <<indexed, last_chunks, collection, bm25_file, top_k, dense_k, lexical_k, q_emb,
                   dense_ids, dense_docs, all_docs, scores, ranked, result>>
    /\ UNCHANGED notRetr

\* Lines 64-67
FuseStep ==
    /\ rpc = "lexical"
    /\ all_docs' = Fuse(dense_docs, lexical_docs)
    /\ rpc' = IF all_docs' = <<>> THEN "returned" ELSE "fused"
    /\ UNCHANGED <<indexed, last_chunks, collection, documents, bm25, bm25_file, top_k, dense_k,
                   lexical_k, q_emb, bm25_scores, dense_ids, lexical_ids, dense_docs, lexical_docs,
                   scores, ranked, result, error>>
    /\ UNCHANGED notRetr

\* Lines 70-82
Rerank ==
    /\ rpc = "fused"
    /\ \E model \in RerankerModels :
        /\ scores' = [i \in 1..Len(all_docs) |-> model[all_docs[i]]]
        /\ ranked' = SortedByScore([i \in 1..Len(all_docs) |-> <<scores'[i], all_docs[i]>>])
        /\ result' = [i \in 1..Min(top_k, Len(all_docs)) |-> ranked'[i][2]]
    /\ rpc' = "returned"
    /\ UNCHANGED <<indexed, last_chunks, collection, documents, bm25, bm25_file, top_k, dense_k,
                   lexical_k, q_emb, bm25_scores, dense_ids, lexical_ids, dense_docs, lexical_docs,
                   all_docs, error>>
    /\ UNCHANGED notRetr

\* Line 71: reranker.predict raises.
RerankRaise ==
    /\ rpc = "fused"
    /\ rpc' = "raised"
    /\ error' = "RerankerError"
    /\ UNCHANGED <<indexed, last_chunks, collection, documents, bm25, bm25_file, top_k, dense_k,
                   lexical_k, q_emb, bm25_scores, dense_ids, lexical_ids, dense_docs, lexical_docs,
                   all_docs, scores, ranked, result>>
    /\ UNCHANGED notRetr

---------------------------------------------------------------------------
(* embedder.py: embed_with_gte_qwen2, embed_chunks;
   rag_pipeline.py: KnowledgeBaseRAG._batch_embed *)

\* rag_pipeline.py line 254: np.zeros(768)
ZERO_DIM == 768

\* embedder.py line 24: gte-Qwen2-7B-instruct returns 3584-dimensional vectors
QWEN_DIM == 3584

ServiceDims == {ZERO_DIM, QWEN_DIM}

EmbTexts == UNION {[1..n -> 1..NumEmbTexts] : n \in 0..MaxEmbTexts}

\* texts[max(i-1, 0):i + batch_size]
BatchFromPrevious(ts, i, bs) == SubSeq(ts, IF i = 0 THEN 1 ELSE i, Min(i + bs, Len(ts)))

\* texts[i:i + batch_size]
Batch(ts, i, bs) == SubSeq(ts, i + 1, Min(i + bs, Len(ts)))

\* The data of a successful response: one vector per input, in input order.
ServiceVectors(batch, d, n) ==
    [k \in 1..Len(batch) |-> [of |-> batch[k], dim |-> d, serial |-> n + k]]

ZeroVector == [of |-> 0, dim |-> ZERO_DIM, serial |-> 0]

\* np.array(embeddings, dtype=np.float32) takes vectors of one length only.
Homogeneous(vs) == \A i, j \in 1..Len(vs) : vs[i].dim = vs[j].dim

EmbedInit ==
    /\ eimpl = "embedder"
    /\ caller = "direct"
    /\ REGOLO_API_KEY = TRUE
    /\ texts = <<>>
    /\ batch_size = 1
    /\ service_dim = QWEN_DIM
    /\ ei = 0
    /\ all_embeddings = <<>>
    /\ sent = <<>>
    /\ serial = 0
    /\ failed = 0
    /\ estate = "idle"
    /\ evalue = None
    /\ embedded = None
    /\ eerror = "none"
    /\ index_dim = QWEN_DIM
    /\ dstate = "idle"
    /\ dense_scores = None

EmbedCallers == {<<"embedder", "direct">>, <<"embedder", "embed_chunks">>,
                 <<"rag_pipeline", "direct">>}

\* embed_with_gte_qwen2(texts, batch_size) (lines 34-40), embed_chunks(chunks)
\* or _batch_embed(texts, batch_size) is called.
CallEmbed ==
    /\ estate = "idle"
    /\ \E c \in EmbedCallers, ts \in EmbTexts, bs \in 1..MaxEmbBatch,
          d \in ServiceDims, key \in BOOLEAN :
        /\ c[1] = "rag_pipeline" => key
        /\ eimpl' = c[1]
        /\ caller' = c[2]
        /\ texts' = ts
        /\ batch_size' = bs
        /\ service_dim' = d
        /\ REGOLO_API_KEY' = key
        /\ IF c[1] = "embedder" /\ ~key
           THEN estate' = "raised" /\ eerror' = "RuntimeError"
           ELSE estate' = "running" /\ eerror' = "none"
    /\ UNCHANGED <<ei, all_embeddings, sent, serial, failed, evalue, embedded,
                   index_dim, dstate, dense_scores>>
    /\ UNCHANGED notEmbed

\* One pass of the loop, the request answered (embedder.py lines 44-65,
\* rag_pipeline.py lines 231-249).
BatchOk ==
    /\ estate = "running"
    /\ ei < Len(texts)
    /\ LET batch == Batch(texts, ei, batch_size)
       IN /\ sent' = Append(sent, batch)
          /\ all_embeddings' = all_embeddings \o ServiceVectors(batch, service_dim, serial)
          /\ serial' = serial + Len(batch)
    /\ ei' = ei + batch_size
    /\ UNCHANGED <<eimpl, caller, REGOLO_API_KEY, texts, batch_size, service_dim,
                   failed, estate, evalue, embedded, eerror, index_dim, dstate,
                   dense_scores>>
    /\ UNCHANGED notEmbed

\* One pass of the loop, the request failing: embedder.py re-raises (lines
\* 56-61), rag_pipeline.py puts zero vectors for the batch (lines 251-254).
BatchFail ==
    /\ estate = "running"
    /\ ei < Len(texts)
    /\ LET batch == Batch(texts, ei, batch_size)
       IN /\ sent' = Append(sent, batch)
          /\ IF eimpl = "embedder"
             THEN /\ estate' = "raised"
                  /\ eerror' = "HTTPError"
                  /\ UNCHANGED <<all_embeddings, ei>>
             ELSE /\ all_embeddings' = all_embeddings \o [k \in 1..Len(batch) |-> ZeroVector]
                  /\ ei' = ei + batch_size
                  /\ UNCHANGED <<estate, eerror>>
    /\ failed' = failed + 1
    /\ UNCHANGED <<eimpl, caller, REGOLO_API_KEY, texts, batch_size, service_dim,
                   serial, evalue, embedded, index_dim, dstate, dense_scores>>
    /\ UNCHANGED notEmbed

\* The loop is over: np.array(...) is returned (embedder.py line 71,
\* rag_pipeline.py line 256); embed_chunks reads embeddings.shape[1] and
\* attaches embeddings[i] to chunk i (lines 90-98).
EmbedReturn ==
    /\ estate = "running"
    /\ ei >= Len(texts)
    /\ IF ~Homogeneous(all_embeddings)
       THEN /\ estate' = "raised"
            /\ eerror' = "ValueError"
            /\ UNCHANGED <<evalue, embedded>>
       ELSE IF caller = "embed_chunks" /\ texts = <<>>
       THEN /\ estate' = "raised"
            /\ eerror' = "IndexError"
            /\ UNCHANGED <<evalue, embedded>>
       ELSE /\ estate' = "returned"
            /\ evalue' = Some(all_embeddings)
            /\ embedded' =
                 IF caller = "embed_chunks"
                 THEN Some([i \in 1..Len(texts) |->
                              [content |-> texts[i], embedding |-> all_embeddings[i]]])
                 ELSE None
            /\ UNCHANGED eerror
    /\ UNCHANGED <<eimpl, caller, REGOLO_API_KEY, texts, batch_size, service_dim, ei,
                   all_embeddings, sent, serial, failed, index_dim, dstate, dense_scores>>
    /\ UNCHANGED notEmbed

\* Number of vectors in the index searched.
IndexSize == 2

\* The comparison without the check of the dimensions.
DimsUnchecked(q, d) == TRUE

\* cosine_similarity (rag_pipeline.py lines 282-285) and collection.query
\* (hybrid_store.py lines 100-103) compare vectors of one dimensionality only
\* and raise otherwise.
DimsMatch(q, d) == q.dim = d

\* The similarity of a vector to the indexed ones; 0 for the zero vector.
Similarities(q) ==
    IF q = ZeroVector THEN {[i \in 1..IndexSize |-> 0]} ELSE [1..IndexSize -> 0..1]

\* The dense search with the embedding of the one query just embedded:
\* hybrid_retrieve (rag_pipeline.py lines 281-285) after _batch_embed([query]),
\* dense_search (hybrid_store.py lines 100-105) after embed_query.
DenseSearch ==
    /\ estate = "returned"
    /\ caller = "direct"
    /\ Len(texts) = 1
    /\ dstate = "idle"
    /\ \E d \in ServiceDims :
        /\ index_dim' = d
        /\ IF DimsMatch(evalue[1][1], d)
           THEN /\ dstate' = "scored"
                /\ \E sims \in Similarities(evalue[1][1]) : dense_scores' = Some(sims)
           ELSE /\ dstate' = "raised"
                /\ dense_scores' = None
    /\ UNCHANGED <<eimpl, caller, REGOLO_API_KEY, texts, batch_size, service_dim, ei,
                   all_embeddings, sent, serial, failed, estate, evalue, embedded, eerror>>
    /\ UNCHANGED notEmbed

---------------------------------------------------------------------------
(* rag_pipeline.py: build_knowledge_base, build_index, load_index;
   telegram_handler.py: main, update_command *)

\* What load_documents finds under ./knowledge-base: 0 stands for no document.
DocSets == 0..NumDocSets

\* The dict index of build_index lines 195-209, by its documents and built_at.
IndexOf(docs, n) == Some([docs |-> docs, built_at |-> n])

\* The states of kb-index.pkl: no file, a file that does not unpickle, a file
\* that holds a pickled index.
ABSENT == [kind |-> "absent", index |-> None]

PARTIAL == [kind |-> "partial", index |-> None]

Whole(ix) == [kind |-> "whole", index |-> ix]

\* A new directory, the bot not started.
IndexInit ==
    /\ rag_index = None
    /\ index_file = ABSENT
    /\ upc = "idle"
    /\ new_index = None
    /\ last_built = None
    /\ builds = 0
    /\ outcome = "none"

\* build_knowledge_base (telegram_handler.py 284 and 329) up to line 209 of
\* build_index: without documents nothing is built (lines 489-491); an
\* exception of the chunking, the embedding or the TF-IDF fit ends the rebuild.
BuildIndex ==
    /\ upc = "idle"
    /\ builds < MaxBuilds
    /\ builds' = builds + 1
    /\ \E docs \in DocSets, raises \in BOOLEAN :
        IF docs = 0
        THEN /\ upc' = "reload"
             /\ UNCHANGED <<new_index, outcome>>
        ELSE IF raises
        THEN /\ upc' = "idle"
             /\ outcome' = "error"
             /\ UNCHANGED new_index
        ELSE /\ upc' = "built"
             /\ new_index' = IndexOf(docs, builds')
             /\ UNCHANGED outcome
    /\ UNCHANGED <<rag_index, index_file, last_built>>
    /\ UNCHANGED notIdx

\* Line 212: open(index_file, "wb") truncates the file; until pickle.dump has
\* written everything, the file does not unpickle.
OpenIndexFile ==
    /\ upc = "built"
    /\ index_file' = PARTIAL
    /\ upc' = "writing"
    /\ UNCHANGED <<rag_index, new_index, last_built, builds, outcome>>
    /\ UNCHANGED notIdx

\* Lines 213-224: pickle.dump writes the whole index; build_index returns.
DumpIndex ==
    /\ upc = "writing"
    /\ index_file' = Whole(new_index)
    /\ last_built' = new_index
    /\ upc' = "reload"
    /\ UNCHANGED <<rag_index, new_index, builds, outcome>>
    /\ UNCHANGED notIdx

\* Line 213: pickle.dump raises part-way (OSError of a full disk, a value
\* that does not pickle); update_command reports the error (302-307).
DumpRaise ==
    /\ upc = "writing"
    /\ upc' = "idle"
    /\ outcome' = "error"
    /\ UNCHANGED <<rag_index, index_file, new_index, last_built, builds>>
    /\ UNCHANGED notIdx

\* load_index lines 260-270 on a file: False without a file, an unpickling
\* error on a partial one (self.index is not assigned), else the index.
Loaded(f) == IF f.kind = "whole" THEN f.index ELSE rag_index

\* telegram_handler.py 288 and 330: rag.load_index() after the rebuild.
LoadIndex ==
    /\ upc = "reload"
    /\ rag_index' = Loaded(index_file)
    /\ outcome' = IF index_file.kind # "whole" \/ rag_index' = None
                  THEN "error" ELSE "ok"
    /\ upc' = "idle"
    /\ UNCHANGED <<index_file, new_index, last_built, builds>>
    /\ UNCHANGED notIdx

\* The process is stopped (SIGKILL, power loss) at any point, and started
\* again: main() lines 326-330 load the index, and build one when
\* load_index returns False.
Restart ==
    /\ outcome # "killed"
    /\ builds > 0
    /\ rag_index' = IF index_file.kind = "whole" THEN index_file.index ELSE None
    /\ upc' = "idle"
    /\ outcome' = "killed"
    /\ UNCHANGED <<index_file, new_index, last_built, builds>>
    /\ UNCHANGED notIdx

---------------------------------------------------------------------------
(* rag_pipeline.py: KnowledgeBaseRAG.hybrid_retrieve *)

\* Cosine similarities, in tenths.
Sims == 0..MaxSim

\* Line 296: fused_scores = 0.6 * dense_scores + 0.4 * lexical_scores, in
\* hundredths.
Fused(d, l) == [i \in DOMAIN d |-> 6 * d[i] + 4 * l[i]]

\* Lines 301-307: chunk, metadata and score of each index.
ResultsOf(ids, f) ==
    [i \in 1..Len(ids) |-> [chunk |-> ids[i], metadata |-> ids[i], score |-> f[ids[i]]]]

\* A query on an index of any size, loaded or not.
BlendInit ==
    /\ index_loaded \in BOOLEAN
    /\ num_chunks \in 1..MaxChunks
    /\ kb_k \in 0..MaxK
    /\ kb_dense_scores \in [1..num_chunks -> Sims]
    /\ lexical_scores \in [1..num_chunks -> Sims]
    /\ fused_scores = <<>>
    /\ kb_top_indices = <<>>
    /\ results = None
    /\ hpc = "idle"

\* hybrid_retrieve is not called.
BlendUnused ==
    /\ index_loaded = FALSE
    /\ num_chunks = 1
    /\ kb_k = 0
    /\ kb_dense_scores = <<0>>
    /\ lexical_scores = <<0>>
    /\ fused_scores = <<>>
    /\ kb_top_indices = <<>>
    /\ results = None
    /\ hpc = "idle"

\* hybrid_retrieve(query, k), lines 277-309.
HybridRetrieve ==
    /\ hpc = "idle"
    /\ IF ~index_loaded
       THEN /\ hpc' = "raised"
            /\ UNCHANGED <<fused_scores, kb_top_indices, results>>
       ELSE /\ fused_scores' = Fused(kb_dense_scores, lexical_scores)
            /\ \E order \in argsort(fused_scores') :
                 \* line 299: np.argsort(fused_scores)[-k:][::-1]
                 kb_top_indices' = Reverse(NegSlice(order, kb_k))
            /\ results' = Some(ResultsOf(kb_top_indices', fused_scores'))
            /\ hpc' = "returned"
    /\ UNCHANGED <<index_loaded, num_chunks, kb_k, kb_dense_scores, lexical_scores>>
    /\ UNCHANGED notBlend

---------------------------------------------------------------------------
(* telegram_handler.py: BotStats, kb_command *)

Days == 0..MaxDays

\* dict.get(key, 0)
Get(d, key) == IF key \in DOMAIN d THEN d[key] ELSE 0

\* d[key] = v
Put(d, key, v) == [x \in (DOMAIN d) \cup {key} |-> IF x = key THEN v ELSE d[x]]

\* BotStats.get_today_count, lines 68-69
get_today_count == Get(daily_queries, today)

\* BotStats.is_limit_reached, lines 74-75
is_limit_reached == get_today_count >= MAX_QUERIES_PER_DAY

\* BotStats.increment, lines 51-60: the dict after the call.
Incremented ==
    LET dq == IF today > reset_date THEN <<>> ELSE daily_queries
    IN Put(dq, today, Get(dq, today) + 1)

\* stats = BotStats() on the day the bot starts.
StatInit ==
    /\ today = 0
    /\ daily_queries = <<>>
    /\ reset_date = 0
    /\ invoked = [d \in Days |-> 0]
    /\ reply = "none"
    /\ commands = 0

\* kb_command, lines 119-187, for one /kb update.  The application handles
\* the updates one after the other (concurrent_updates is not set), so the
\* handler runs to its end before the next starts.  rag.query or the sending
\* of the answer can raise: the except of line 177 answers with the error and
\* line 170 is not reached.
KbCommand ==
    /\ commands < MaxCommands
    /\ commands' = commands + 1
    /\ \E has_question \in BOOLEAN, raises \in BOOLEAN :
        IF is_limit_reached
        THEN /\ reply' = "limit"
             /\ UNCHANGED <<daily_queries, reset_date, invoked>>
        ELSE IF ~has_question
        THEN /\ reply' = "usage"
             /\ UNCHANGED <<daily_queries, reset_date, invoked>>
        ELSE /\ invoked' = [invoked EXCEPT ![today] = @ + 1]
             /\ IF raises
                THEN /\ reply' = "error"
                     /\ UNCHANGED <<daily_queries, reset_date>>
                ELSE /\ reply' = "answer"
                     /\ daily_queries' = Incremented
                     /\ reset_date' = IF today > reset_date THEN today ELSE reset_date
    /\ UNCHANGED today
    /\ UNCHANGED notStat

\* Midnight passes.
NextDay ==
    /\ today < MaxDays
    /\ today' = today + 1
    /\ UNCHANGED <<daily_queries, reset_date, invoked, reply, commands>>
    /\ UNCHANGED notStat

---------------------------------------------------------------------------
(* Specifications *)

\* The knowledge-base bot is not in use.
KBUnused == IndexInit /\ BlendUnused /\ StatInit

InitRag == RagInit /\ ChunkUnused /\ StoreInit /\ EmbedInit /\ KBUnused

InitChunk == ChunkInit /\ RagUnused /\ StoreInit /\ EmbedInit /\ KBUnused

InitRetrieve == StoreInit /\ RagUnused /\ ChunkUnused /\ EmbedInit /\ KBUnused

InitEmbed == EmbedInit /\ RagUnused /\ ChunkUnused /\ StoreInit /\ KBUnused

\* Sequential cached_rag calls of one caller (main.py interactive_mode).
NextCache ==
    \/ CallCachedRag
    \/ \E i \in Tasks : TaskStart(i)
    \/ \E i \in Tasks : RetrieveReturn(i)
    \/ \E i \in Tasks : Resume(i)
    \/ \E i \in Tasks : GenerateReturn(i)
    \/ DirectEnd
    \/ Expire

SpecCache == InitRag /\ [][NextCache]_vars

\* One batch_rag call, started from any cache content.
NextBatch ==
    \/ CallBatchRag
    \/ \E i \in Tasks : TaskStart(i)
    \/ \E i \in Tasks : Admit(i)
    \/ \E i \in Tasks : RetrieveReturn(i)
    \/ \E i \in Tasks : Resume(i)
    \/ \E i \in Tasks : GenerateReturn(i)
    \/ GatherReturn
    \/ GatherRaise
    \/ BatchEnd
    \/ Expire

SpecBatch == InitRag /\ [][NextBatch]_vars

\* cached_rag calls of one caller on a database that other applications share,
\* that can stop answering, and that clear_cache empties.
NextShared ==
    \/ CallCachedRag
    \/ \E i \in Tasks : TaskStart(i)
    \/ \E i \in Tasks : RetrieveReturn(i)
    \/ \E i \in Tasks : Resume(i)
    \/ \E i \in Tasks : GenerateReturn(i)
    \/ DirectEnd
    \/ RedisDown
    \/ ClearCacheKeys
    \/ ClearCacheDelete

InitShared == SharedInit /\ ChunkUnused /\ StoreInit /\ EmbedInit /\ KBUnused

SpecShared == InitShared /\ [][NextShared]_vars

\* Sequential cached_rag calls that the caller can abandon.
NextCancel ==
    \/ NextCache
    \/ \E i \in Tasks : Cancel(i)

SpecCancel == InitRag /\ [][NextCancel]_vars

\* Rebuilds of the knowledge-base index (main, /kb_update) and restarts.
NextIndex ==
    \/ BuildIndex
    \/ OpenIndexFile
    \/ DumpIndex
    \/ DumpRaise
    \/ LoadIndex
    \/ Restart

InitIndex == IndexInit /\ BlendUnused /\ StatInit /\ RagUnused /\ ChunkUnused /\ StoreInit /\ EmbedInit

SpecIndex == InitIndex /\ [][NextIndex]_vars

\* A store that is indexed more than once, and queried.
NextReindex ==
    \/ Index
    \/ IndexAgain
    \/ CallRetrieve
    \/ LexicalSearch
    \/ FuseStep

SpecReindex == InitRetrieve /\ [][NextReindex]_vars

\* One hybrid_retrieve call on any index.
NextBlend == HybridRetrieve

InitBlend == BlendInit /\ IndexInit /\ StatInit /\ RagUnused /\ ChunkUnused /\ StoreInit /\ EmbedInit

SpecBlend == InitBlend /\ [][NextBlend]_vars

\* /kb commands over some days.
NextStat ==
    \/ KbCommand
    \/ NextDay

InitStat ==
    StatInit /\ IndexInit /\ BlendUnused /\ RagUnused /\ ChunkUnused /\ StoreInit /\ EmbedInit

SpecStat == InitStat /\ [][NextStat]_vars

\* One call of a chunker on any text.
NextChunk ==
    \/ SemanticChunk
    \/ KBSemanticChunk

SpecChunk == InitChunk /\ [][NextChunk]_vars

\* A store is built (or not), perhaps reopened, and one query is retrieved.
NextRetrieve ==
    \/ Index
    \/ Reopen
    \/ CallRetrieve
    \/ LexicalSearch
    \/ FuseStep
    \/ Rerank
    \/ RerankRaise

SpecRetrieve == InitRetrieve /\ [][NextRetrieve]_vars

\* One call of an embedding function, batch by batch.
NextEmbed ==
    \/ CallEmbed
    \/ BatchOk
    \/ BatchFail
    \/ EmbedReturn
    \/ DenseSearch

SpecEmbed == InitEmbed /\ [][NextEmbed]_vars

---------------------------------------------------------------------------
(* Properties of cached_rag and batch_rag *)

\* Two cached_rag calls in a row for one query, both with the cache in use
\* and both returning, the first of them a miss that ran retrieval.
RoundTripAt(k) ==
    /\ hist[k].kind = "call" /\ hist[k+1].kind = "call"
    /\ hist[k].q = hist[k+1].q
    /\ hist[k].cached /\ hist[k+1].cached
    /\ hist[k].ok /\ hist[k+1].ok
    /\ ~hist[k].expired /\ ~hist[k+1].expired
    /\ hist[k].retr = 1

\* C1: Cache round-trip.  When cached_rag(q) is called twice in sequence with
\* caching enabled and available and no expiry in between, retrieval and
\* generation are each invoked exactly once in total and the second call
\* returns the text of the first, whatever text generation produced.
C1_CacheRoundTrip ==
    \A k \in 1..(Len(hist) - 1) :
        RoundTripAt(k) =>
            /\ hist[k].retr + hist[k+1].retr = 1
            /\ hist[k].gen + hist[k+1].gen = 1
            /\ hist[k+1].ret = hist[k].ret

\* C2: Concurrency ceiling.  During batch_rag the number of queries past the
\* admission gate (retrieving or generating inside cached_rag) never exceeds
\* max_concurrent.
C2_ConcurrencyCeiling ==
    mode = "batch" => NumInside <= max_concurrent

\* The ceiling binds: every slot is taken and a further query queues.
C2_Witness ==
    /\ mode = "batch"
    /\ NumInside = max_concurrent
    /\ max_concurrent >= 2
    /\ waiters # <<>>

\* C3: Batch order preservation.  The list batch_rag returns is as long as
\* the list of queries and its i-th element is what cached_rag returned for
\* the i-th query, whatever the order of completion.
C3_BatchOrder ==
    batchState = "returned" =>
        /\ Len(batchResult) = Len(queries)
        /\ \A i \in Tasks : ret[i] = Some(batchResult[i])

\* A batch returned whose second query completed before its first, with
\* different answers.
C3_Witness ==
    /\ batchState = "returned"
    /\ Len(queries) >= 2
    /\ completed[1] = 2
    /\ batchResult[1] # batchResult[2]

\* C4: Backpressure without dropping.  Once batch_rag is over, every query
\* whose own retrieval and generation succeeded has its answer in the batch
\* result, also when another query of the batch failed.
C4_NoDrop ==
    (mode = "batch" /\ batchState \in {"returned", "raised"}) =>
        \A i \in Tasks :
            pc[i] = "done" =>
                /\ i \in DOMAIN batchResult
                /\ Some(batchResult[i]) = ret[i]

---------------------------------------------------------------------------
(* Properties of HybridRetriever.retrieve *)

\* The fusion step of the retrieve call has run.
FusionDone == rpc \in {"fused", "returned"} \/ (rpc = "raised" /\ error = "RerankerError")

\* Position of the first occurrence of x in s.
FirstPos(s, x) == CHOOSE i \in 1..Len(s) : s[i] = x /\ \A j \in 1..(i-1) : s[j] # x

\* C5: Fusion.  The fused candidate list holds the chunks of the dense and of
\* the lexical candidate list, each chunk once (deduplicated by chunk
\* identity, so that two distinct chunks are never merged into one), in order
\* of first occurrence with the dense candidates first, and at most 20 of them.
C5_FusionByIdentity ==
    FusionDone =>
        all_docs = TextsOf(collection, FirstN(DedupFirst(dense_ids \o lexical_ids), FUSE_CAP))

\* C5 (amended): the fused candidate list holds the texts of the dense and of
\* the lexical candidates, each text once (two chunks of equal text are one
\* candidate), in order of first occurrence with the dense candidates first,
\* cut after the first 20.
C5_FusionByText ==
    FusionDone =>
        LET both == dense_docs \o lexical_docs
        IN /\ Len(all_docs) = Min(Cardinality(Range(both)), FUSE_CAP)
           /\ Range(all_docs) \subseteq Range(both)
           /\ \A i, j \in 1..Len(all_docs) :
                  i < j => FirstPos(both, all_docs[i]) < FirstPos(both, all_docs[j])
           /\ \A t \in Range(both) \ Range(all_docs) :
                  \A i \in 1..Len(all_docs) :
                      FirstPos(both, all_docs[i]) < FirstPos(both, t)

\* Both searches returned a same chunk, and more than 20 texts in all.
C5_Witness ==
    /\ FusionDone
    /\ Range(dense_ids) \cap Range(lexical_ids) # {}
    /\ Cardinality(Range(dense_docs \o lexical_docs)) > FUSE_CAP
    /\ Len(all_docs) = FUSE_CAP

\* retrieve returned from its last line, after reranking.
Reranked == rpc = "returned" /\ all_docs # <<>>

\* C6: Rerank ordering.  retrieve returns min(top_k, number of fused
\* candidates) chunks, the best by rerank score in non-increasing order of
\* score, candidates of equal score in their fusion order.
C6_RerankOrdering ==
    Reranked =>
        LET pos(d) == FirstPos(all_docs, d)
            sc(d) == scores[pos(d)]
        IN /\ Len(result) = Min(top_k, Len(all_docs))
           /\ Range(result) \subseteq Range(all_docs)
           /\ \A i, j \in 1..Len(result) :
                  i < j => \/ sc(result[i]) > sc(result[j])
                           \/ /\ sc(result[i]) = sc(result[j])
                              /\ pos(result[i]) < pos(result[j])
           /\ \A d \in Range(all_docs) \ Range(result) :
                  \A i \in 1..Len(result) :
                      \/ sc(result[i]) > sc(d)
                      \/ sc(result[i]) = sc(d) /\ pos(result[i]) < pos(d)

\* Fewer chunks returned than fused, two of them of equal score, and a
\* candidate of that score left out.
C6_Witness ==
    /\ Reranked
    /\ Len(result) >= 2
    /\ Len(result) < Len(all_docs)
    /\ \E i \in 1..(Len(result) - 1) :
           scores[FirstPos(all_docs, result[i])] = scores[FirstPos(all_docs, result[i+1])]
    /\ \E i \in 1..Len(all_docs) :
           /\ all_docs[i] \notin Range(result)
           /\ scores[i] = scores[FirstPos(all_docs, result[Len(result)])]

\* The lexical search of the retrieve call has returned.
LexicalDone == rpc = "lexical" \/ FusionDone

\* C17: Lexical tie-break.  In the result of the lexical top-k search two
\* chunks of equal score come in insertion (index) order, and of two chunks
\* of equal score at the cut-off the one inserted earlier is selected.
C17_LexicalTieBreak ==
    LexicalDone =>
        /\ \A i, j \in 1..Len(lexical_ids) :
               (i < j /\ bm25_scores[lexical_ids[i]] = bm25_scores[lexical_ids[j]])
                   => lexical_ids[i] < lexical_ids[j]
        /\ \A x \in Range(lexical_ids) :
               \A y \in DOMAIN bm25_scores \ Range(lexical_ids) :
                   bm25_scores[x] = bm25_scores[y] => x < y

\* C7: Degraded rerank.  When reranker.predict fails, retrieve does not fail:
\* it returns the first min(top_k, number of candidates) candidates of the
\* ranking it had before reranking.
C7_DegradedRerank ==
    (rpc \in {"returned", "raised"} /\ error = "RerankerError") =>
        /\ rpc = "returned"
        /\ result = FirstN(all_docs, top_k)
        /\ result # <<>>

\* C8: Empty corpus.  With no chunk indexed, retrieve returns the empty list
\* and does not raise.
C8_EmptyCorpus ==
    (collection = <<>> /\ rpc \in {"returned", "raised"}) =>
        /\ rpc = "returned"
        /\ result = <<>>

---------------------------------------------------------------------------
(* Properties of the chunkers *)

\* C9: Chunk size bound.  Every chunk returned by either chunker is at most
\* chunk_size + overlap characters long, whatever the text, also when one
\* paragraph or sentence is longer than chunk_size.
C9_ChunkSizeBound ==
    chunked # None =>
        \A i \in 1..NumChunks : Len(Content(i)) <= chunk_size + overlap

\* Every paragraph (sentence) of the text is shorter than chunk_size.
UnitsShort == \A k \in 1..Len(Units) : Len(Units[k]) < chunk_size

\* Characters a chunk may take beyond chunk_size + overlap: the separator of
\* the overlap pass in rag_pipeline, whose chunks can be chunk_size long
\* before it.
Tolerance == IF chunker = "rag_pipeline" THEN Len(Separator) ELSE 0

\* C9 (amended): when every paragraph (sentence) of the text is shorter than
\* chunk_size, every chunk is at most chunk_size + overlap characters long in
\* semantic_chunker and at most one character more in rag_pipeline.
C9_ChunkSizeBoundShortUnits ==
    (chunked # None /\ UnitsShort) =>
        \A i \in 1..NumChunks :
            Len(Content(i)) <= chunk_size + overlap + Tolerance

\* A later chunk of a text of short units reaches the bound exactly.
C9_Witness ==
    /\ chunked # None
    /\ UnitsShort
    /\ overlap > 0
    /\ \E i \in 2..NumChunks :
           Len(Content(i)) = chunk_size + overlap + Tolerance

\* C10: Overlap invariant.  With overlap > 0, the first overlap characters of
\* every chunk but the first are the last overlap characters of the previous
\* chunk's pre-overlap content, also when that content is shorter than overlap.
C10_OverlapInvariant ==
    (chunked # None /\ overlap > 0) =>
        \A i \in 2..NumChunks :
            /\ Len(Content(i)) >= overlap
            /\ SubSeq(Content(i), 1, overlap) = LastN(chunks[i-1], overlap)
            /\ Len(LastN(chunks[i-1], overlap)) = overlap

\* C10 (amended): with overlap > 0, every chunk but the first starts with the
\* last min(overlap, len(previous)) characters of the previous chunk's
\* pre-overlap content, followed by the separator and its own content.
C10_OverlapUpToPrevLength ==
    (chunked # None /\ overlap > 0) =>
        \A i \in 2..NumChunks :
            LET prev == chunks[i-1]
                m == Min(overlap, Len(prev))
            IN /\ Len(Content(i)) >= m
               /\ SubSeq(Content(i), 1, m) = SubSeq(prev, Len(prev) - m + 1, Len(prev))
               /\ Content(i) = SubSeq(Content(i), 1, m) \o Separator \o chunks[i]

\* An overlap that is a proper, recognisable tail of the previous chunk.
C10_Witness ==
    /\ chunked # None
    /\ overlap > 0
    /\ \E i \in 2..NumChunks :
           /\ Len(chunks[i-1]) > overlap
           /\ LastN(chunks[i-1], overlap) # FirstN(chunks[i-1], overlap)

\* The content of chunk i without the overlap and separator prepended to it.
RECURSIVE Recovered(_)
Recovered(i) ==
    IF i = 1 \/ overlap = 0 THEN Content(i)
    ELSE Drop(Content(i), Min(overlap, Len(Recovered(i - 1))) + 1)

\* The paragraphs of the text, the sentences of the cleaned text: non-blank,
\* stripped, in order.
DocUnits ==
    IF chunker = "semantic_chunker"
    THEN NonBlankStripped(Split(text, <<NL, NL>>))
    ELSE NonBlankStripped(Split(KBClean(text), <<".", " ">>))

\* The paragraphs (sentences) read back from one chunk; rag_pipeline ends
\* every sentence with a full stop of its own.
UnitsIn(c) ==
    IF chunker = "semantic_chunker"
    THEN NonBlankStripped(Split(c, <<NL, NL>>))
    ELSE LET parts == Split(c, <<".", " ">>)
         IN [k \in 1..Len(parts) |->
                IF k = Len(parts) THEN SubSeq(parts[k], 1, Len(parts[k]) - 1)
                ELSE parts[k]]

RECURSIVE UnitsUpTo(_)
UnitsUpTo(n) == IF n = 0 THEN <<>> ELSE UnitsUpTo(n - 1) \o UnitsIn(Recovered(n))

\* C11: Chunk coverage.  The chunks in order, each after the first without
\* the overlap prepended to it, hold every non-blank paragraph (sentence) of
\* the text exactly once and in the original order.
C11_ChunkCoverage ==
    chunked # None => UnitsUpTo(NumChunks) = DocUnits

\* Several chunks with overlap, one of them holding more than one unit.
C11_Witness ==
    /\ chunked # None
    /\ overlap > 0
    /\ NumChunks >= 2
    /\ Len(DocUnits) > NumChunks

\* C12: Degenerate inputs.  An empty or whitespace-only text gives no chunk;
\* a non-blank text shorter than chunk_size gives exactly one chunk, which
\* holds all its paragraphs (sentences).
C12_DegenerateInputs ==
    chunked # None =>
        /\ Strip(text) = <<>> => NumChunks = 0
        /\ (Strip(text) # <<>> /\ Len(text) < chunk_size) =>
               /\ NumChunks = 1
               /\ UnitsIn(Content(1)) = DocUnits

\* What joins two units inside a chunk.
Joiner == IF chunker = "semantic_chunker" THEN <<NL, NL>> ELSE <<" ">>

\* Length of the first unit of chunk c as the chunker appends it (rag_pipeline
\* appends the sentence with its full stop).
FirstUnitLen(c) ==
    Len(UnitsIn(c)[1]) + (IF chunker = "rag_pipeline" THEN 1 ELSE 0)

\* Length of pre-overlap chunk i with the first unit of chunk i+1 added.
LenIfJoined(i) == Len(chunks[i]) + Len(Joiner) + FirstUnitLen(chunks[i+1])

CleanText == chunker = "semantic_chunker" => Split(text, <<NL, NL>>) = DocUnits

\* rag_pipeline counts the space it puts before the first sentence of the
\* first chunk, and not the space that joins a sentence to a later chunk.
Slack(i) == IF chunker = "rag_pipeline" /\ i > 1 THEN 1 ELSE 0

C14_ChunkRecords ==
    (chunker = "semantic_chunker" /\ chunked # None) =>
        /\ DocUnits # <<>> => NumChunks >= 1
        /\ \A i \in 1..NumChunks :
               LET c == chunked[1][i]
               IN /\ DOMAIN c = {"content", "metadata"}
                  /\ c.metadata.chunk_id = i - 1
                  /\ c.metadata.total_chunks = NumChunks
                  /\ c.metadata.chunk_size = Len(c.content)
                  /\ c.metadata.doc_id = doc_id

\* Several chunks, with overlap, for a doc_id other than the default.
C14_Witness ==
    /\ chunker = "semantic_chunker"
    /\ chunked # None
    /\ NumChunks >= 2
    /\ overlap > 0
    /\ doc_id # DOC_ID

---------------------------------------------------------------------------
(* Properties of the embedding functions *)

RECURSIVE Flatten(_)
Flatten(ss) == IF ss = <<>> THEN <<>> ELSE Head(ss) \o Flatten(Tail(ss))

\* C15: Embedding order preservation.  A successful embed returns one vector
\* per text, the i-th being the vector the service produced for the i-th
\* text; every text went out in exactly one request, no request carried more
\* than batch_size texts, and embed_chunks gives chunk i the vector of its
\* content.
C15_EmbeddingOrder ==
    (estate = "returned" /\ failed = 0) =>
        /\ Len(evalue[1]) = Len(texts)
        /\ Flatten(sent) = texts
        /\ \A r \in 1..Len(sent) : Len(sent[r]) >= 1 /\ Len(sent[r]) <= batch_size
        /\ \A i \in 1..Len(texts) :
               /\ evalue[1][i].of = texts[i]
               /\ evalue[1][i].serial = i
        /\ embedded # None =>
               /\ Len(embedded[1]) = Len(texts)
               /\ \A i \in 1..Len(texts) :
                      /\ embedded[1][i].content = texts[i]
                      /\ embedded[1][i].embedding = evalue[1][i]

\* embed_chunks returned for different texts sent in several requests, the
\* last one not full.
C15_Witness ==
    /\ estate = "returned"
    /\ failed = 0
    /\ embedded # None
    /\ Len(sent) >= 2
    /\ Len(sent[Len(sent)]) < batch_size
    /\ \E i, j \in 1..Len(texts) : texts[i] # texts[j]

\* C16: Embedding batch failure.  When the request of a batch fails, the
\* embed operation fails as a whole and returns no vectors.
C16_BatchFailureFailsWhole ==
    (failed > 0 /\ estate \in {"returned", "raised"}) =>
        /\ estate = "raised"
        /\ evalue = None

C19_CacheErrorNeverPropagates == \A i \in Tasks : pc[i] # "cache_error"

\* C20: when clear_cache has returned, the database held no key under "rag:"
\* at the return, and the entries outside that prefix are those it held when
\* clear_cache was called, whatever cached_rag calls ran in between.
C20_BulkInvalidate ==
    cstate = "returned" => (left = {} /\ OutsidePrefix(cache) = outside)


\* A step that creates or changes the entry of key k.
Writes(k) == k \in DOMAIN cache' /\ (k \in DOMAIN cache => cache'[k] # cache[k])

\* C21: an entry is written only in the step in which a cached_rag call for
\* that key returns, after rag_generate returned, the text it returns; a call
\* that fails in retrieval or generation or is cancelled writes nothing.
C21_NoPartialWrites ==
    [][\A k \in CacheKeys :
          Writes(k) => \E i \in Tasks :
                          /\ pc[i] \in {"retrieved", "generating"}
                          /\ pc'[i] = "done"
                          /\ genCalls'[i] = 1
                          /\ cache_key(queries[i]) = k
                          /\ ret'[i] = Some(cache'[k])]_vars

\* A call was cancelled after its retrieval had finished, one failed in
\* generation: the database is reachable and caching is on.
C21_Witness ==
    /\ mode = "direct"
    /\ CacheEnabled
    /\ pc[1] = "cancelled"
    /\ retrieved[1] = "docs"
    /\ hist # <<>>
    /\ hist[1].kind = "call" /\ ~hist[1].ok /\ hist[1].gen = 1 /\ hist[1].cached


\* C22: a cached_rag call whose generation request failed does not end with
\* an exception raised to its caller.
C22_GenerationFailureNotRaised ==
    \A i \in Tasks : ~(pc[i] = "failed" /\ genRequests[i] = 1)


\* C23: a retrieve call on a store that was never indexed, rejected with the
\* error that names index(), is rejected before the embedding service is
\* contacted.
C23_RejectedBeforeRemote ==
    (indexed = "no" /\ rpc = "raised" /\ error = "FileNotFoundError") => q_emb = "None"


\* C24: once an index has been fully built, whatever rebuild failed or was
\* interrupted since, the index that queries use is a fully built snapshot
\* and the file that load_index reads holds the last fully built snapshot.
C24_AtomicSwap ==
    (last_built # None /\ upc = "idle") =>
        /\ index_file = Whole(last_built)
        /\ rag_index # None => rag_index[1].built_at <= last_built[1].built_at


\* C25: after index calls that returned, the ChromaDB collection and the BM25
\* index hold the same set of chunk texts, those of the last index call.
C25_DenseLexicalConsistent ==
    (indexed = "ok" /\ bm25 = "built") =>
        /\ Range(collection) = Range(documents)
        /\ Range(documents) = Range(last_chunks)


\* Two cached_rag calls in a row for different queries, both with the cache
\* in use and both returning, the first of them a miss that stored its answer.
OtherQueryAt(k) ==
    /\ hist[k].kind = "call" /\ hist[k+1].kind = "call"
    /\ hist[k].q # hist[k+1].q
    /\ hist[k].cached /\ hist[k+1].cached
    /\ hist[k].ok /\ hist[k+1].ok
    /\ ~hist[k].expired /\ ~hist[k+1].expired
    /\ hist[k].retr = 1

\* C26: a cached_rag call for q2 that follows a call for a different query q1
\* is never a hit on the entry the call for q1 stored: when it is answered
\* from the cache, it reads the entry of another key.
C26_CacheIsolation ==
    \A k \in 1..(Len(hist) - 1) :
        (OtherQueryAt(k) /\ hist[k+1].retr = 0) =>
            cache_key(hist[k+1].q) # cache_key(hist[k].q)


\* The tasks of the batch that sent a request to the generation service for
\* query q.
Generators(q) == {i \in Tasks : queries[i] = q /\ genRequests[i] > 0}

\* C27: in a batch_rag call with the cache in use and max_concurrent >= 2, at
\* most one request is sent to the generation service for each query text.
C27_SingleGeneration ==
    (mode = "batch" /\ CacheEnabled /\ max_concurrent >= 2) =>
        \A q \in BatchQueries : Cardinality(Generators(q)) <= 1


\* C28: lexical_search(query, top_k) on an index of n documents returns
\* min(top_k, n) different indexed documents, for every top_k >= 0, in
\* non-increasing order of BM25 score.
C28_LexicalTopK ==
    LexicalDone =>
        /\ Len(lexical_ids) = Min(lexical_k, Len(documents))
        /\ Range(lexical_ids) \subseteq DOMAIN documents
        /\ Cardinality(Range(lexical_ids)) = Len(lexical_ids)
        /\ lexical_docs = TextsOf(documents, lexical_ids)
        /\ \A i, j \in 1..Len(lexical_ids) :
               i < j => bm25_scores[lexical_ids[i]] >= bm25_scores[lexical_ids[j]]


\* C29: hybrid_retrieve(query, k) on an index of n chunks returns min(k, n)
\* different chunks, for every k >= 0, each with its own metadata and the
\* score 0.6*dense + 0.4*lexical of that chunk, in non-increasing order of
\* that score, and no chunk left out scores strictly higher than one returned.
C29_WeightedBlend ==
    hpc = "returned" =>
        LET r == results[1]
            ids == {r[i].chunk : i \in 1..Len(r)}
        IN /\ Len(r) = Min(kb_k, num_chunks)
           /\ ids \subseteq 1..num_chunks
           /\ Cardinality(ids) = Len(r)
           /\ \A i \in 1..Len(r) :
                  /\ r[i].metadata = r[i].chunk
                  /\ r[i].score = 6 * kb_dense_scores[r[i].chunk]
                                   + 4 * lexical_scores[r[i].chunk]
           /\ \A i, j \in 1..Len(r) : i < j => r[i].score >= r[j].score
           /\ \A x \in (1..num_chunks) \ ids :
                  \A i \in 1..Len(r) : fused_scores[x] <= r[i].score


\* C30: on every day kb_command calls rag.query at most MAX_QUERIES_PER_DAY
\* times; a command that finds the limit reached is answered with the limit
\* message.
C30_DailyLimit ==
    \A d \in Days : invoked[d] <= MAX_QUERIES_PER_DAY

=============================================================================
